---- MODULE Spec2Model ----
(***************************************************************************)
(* Model of multimodal_mcp/openai_client.py: the OpenAIClient facade with  *)
(* its four operations, each wrapped by the tenacity retry policy built by *)
(* _retryable().                                                           *)
(*                                                                         *)
(* One client is constructed and at most one operation is invoked on it.   *)
(* The transport decides what provider call number i of the invocation     *)
(* produces, a raised exception or a response.  The secondary image fetch  *)
(* draws its outcome when it is issued.                                    *)
(***************************************************************************)
EXTENDS Integers, Sequences, FiniteSets, TLC

VARIABLES
    settings,       \* the Settings object handed to __init__
    client,         \* "new", "ready" (constructed) or "failed" (__init__ raised)
    initError,      \* the exception __init__ raised, or NoCause
    call,           \* the invocation in progress: operation name and arguments
    transport,      \* the transport the invocation runs over
    pc,             \* "idle", "attempt", "attempted", "done"
    attempts,       \* tenacity attempt_number: runs of the operation body
    providerCalls,  \* provider calls issued in this invocation
    fetchCalls,     \* secondary httpx.get calls issued in this invocation
    fetchLog,       \* outcomes of the secondary fetches, in order
    sent,           \* the payloads handed to the provider calls, in order
    last,           \* outcome of the latest run of the operation body
    outcome,        \* what the caller of the operation gets
    slept,          \* the waits tenacity slept, in milliseconds, in order
    clock,          \* time.monotonic(), in ticks
    window          \* when the latest provider call was issued and answered

vars == <<settings, client, initError, call, transport, pc, attempts,
          providerCalls, fetchCalls, fetchLog, sent, last, outcome, slept,
          clock, window>>

----------------------------------------------------------------------------
(* Python values.  A str is a tuple of tokens, a list is a tuple of its     *)
(* items, a dict is a function of its keys, and None is the empty tuple,   *)
(* which equals no str, no non-empty list and no non-empty dict of the     *)
(* model.                                                                  *)

None == <<>>

\* the empty str and the empty dict
EmptyStr == <<"">>
EmptyDict == <<"{}">>

\* bool(v) of a str, a dict or None
Truthy(v) == v # None /\ v # EmptyStr /\ v # EmptyDict

\* the expression a or b
Or(a, b) == IF Truthy(a) THEN a ELSE b

\* str(b) of a bool
Str(b) == IF b THEN "True" ELSE "False"

\* {key: value for key, value in params.items() if value is not None}
NotNone(params) == [k \in {key \in DOMAIN params : params[key] # None} |-> params[k]]

----------------------------------------------------------------------------
(* Exceptions *)

INVALID_ARGUMENT == "INVALID_ARGUMENT"
TIMEOUT == "TIMEOUT"
OPENAI_ERROR == "OPENAI_ERROR"

ErrorKinds == {INVALID_ARGUMENT, TIMEOUT, OPENAI_ERROR}

\* kind and cause of an exception that is no MCPError, or has no cause
NoKind == "-"
NoCause == [type |-> "-"]

\* an exception a library raises: its class name; message is its str()
RawExc(t, s) == [type |-> t, kind |-> NoKind, message |-> s, cause |-> NoCause]

\* errors.mcp_error(kind, message, cause): the MCPError the client raises
mcp_error(kind, message, cause) ==
    [type |-> "MCPError", kind |-> kind, message |-> message, cause |-> cause]

\* errors.MCPError: an exception class of the client's own
MCPErrorBases == {"MCPError", "Exception"}

\* the classes an exception class derives from, itself included
Bases(t) ==
    CASE t = "ReadTimeout"     -> {"ReadTimeout", "httpx.TimeoutException", "httpx.HTTPError", "Exception"}
      [] t = "ConnectTimeout"  -> {"ConnectTimeout", "httpx.TimeoutException", "httpx.HTTPError", "Exception"}
      [] t = "ConnectError"    -> {"ConnectError", "httpx.HTTPError", "Exception"}
      [] t = "HTTPStatusError" -> {"HTTPStatusError", "httpx.HTTPError", "Exception"}
      [] t = "RateLimitError"  -> {"RateLimitError", "openai.RateLimitError", "openai.APIError", "Exception"}
      [] t = "APITimeoutError" -> {"APITimeoutError", "openai.APITimeoutError", "openai.APIConnectionError",
                                   "openai.APIError", "Exception"}
      [] t = "MCPError"        -> MCPErrorBases
      [] OTHER                 -> {t, "Exception"}

IsInstance(e, classes) == Bases(e.type) \cap classes # {}

\* _openai_retry_exceptions(): the classes the retry policy retries on
_RETRYABLE ==
    {"httpx.TimeoutException", "httpx.HTTPError",
     "openai.APIConnectionError", "openai.APITimeoutError",
     "openai.RateLimitError", "openai.APIError"}

\* a retry predicate that retries on any exception
retry_if_any_exception(e) == IsInstance(e, {"Exception"})

\* a retry predicate that knows the provider's classes only, not httpx's
retry_if_openai_exception(e) ==
    IsInstance(e, {"openai.APIConnectionError", "openai.APITimeoutError",
                   "openai.RateLimitError", "openai.APIError"})

\* retry_if_exception_type(_RETRYABLE)
retry_if_exception_type(e) == IsInstance(e, _RETRYABLE)

\* the attempts stop_after_attempt(3) allows
MaxAttempts == 3

----------------------------------------------------------------------------
(* base64.b64decode, as binascii.a2b_base64 computes it in its default,      *)
(* non-strict mode: characters outside the alphabet are skipped.            *)

Pad == "="

\* the characters of the base64 alphabet the model's strings use, and "="
B64Chars == {"E", "F", "Q", "T", "W", "u", Pad}

\* table_a2b_base64: the 6-bit value of an alphabet character
Sextet(ch) ==
    CASE ch = "E" -> 4
      [] ch = "F" -> 5
      [] ch = "Q" -> 16
      [] ch = "T" -> 19
      [] ch = "W" -> 22
      [] ch = "u" -> 46

\* the decoder's state before the first character
A2bStart == [quad_pos |-> 0, pads |-> 0, left |-> 0, out |-> <<>>, done |-> FALSE]

\* one character of input
A2bStep(st, ch) ==
    IF st.done \/ ch \notin B64Chars THEN st
    ELSE IF ch = Pad THEN
        IF st.quad_pos >= 2 /\ st.pads + 1 >= 4 - st.quad_pos
        THEN [st EXCEPT !.done = TRUE, !.quad_pos = 0]
        ELSE IF st.quad_pos >= 2 THEN [st EXCEPT !.pads = st.pads + 1] ELSE st
    ELSE LET c == Sextet(ch) IN
        CASE st.quad_pos = 0 ->
                [st EXCEPT !.pads = 0, !.quad_pos = 1, !.left = c]
          [] st.quad_pos = 1 ->
                [st EXCEPT !.pads = 0, !.quad_pos = 2, !.left = c % 16,
                           !.out = Append(st.out, st.left * 4 + c \div 16)]
          [] st.quad_pos = 2 ->
                [st EXCEPT !.pads = 0, !.quad_pos = 3, !.left = c % 4,
                           !.out = Append(st.out, st.left * 16 + c \div 4)]
          [] st.quad_pos = 3 ->
                [st EXCEPT !.pads = 0, !.quad_pos = 0, !.left = 0,
                           !.out = Append(st.out, st.left * 64 + c)]

RECURSIVE A2bRun(_, _, _)
A2bRun(s, i, st) == IF i > Len(s) THEN st ELSE A2bRun(s, i + 1, A2bStep(st, s[i]))

\* base64.b64decode(s): the bytes, or binascii.Error when the quad is incomplete
b64decode(s) ==
    LET st == A2bRun(s, 1, A2bStart)
    IN  IF st.quad_pos = 0
        THEN [ok |-> TRUE, bytes |-> st.out]
        ELSE [ok |-> FALSE, bytes |-> <<>>]

\* table_b2a_base64: the alphabet character of a 6-bit value
B64Char(v) == CHOOSE ch \in B64Chars \ {Pad} : Sextet(ch) = v

RECURSIVE b64encode(_)
\* base64.b64encode(b).decode("ascii")
b64encode(b) ==
    IF Len(b) = 0 THEN <<>>
    ELSE IF Len(b) = 1 THEN
        <<B64Char(b[1] \div 4), B64Char((b[1] % 4) * 16), Pad, Pad>>
    ELSE IF Len(b) = 2 THEN
        <<B64Char(b[1] \div 4), B64Char((b[1] % 4) * 16 + b[2] \div 16),
          B64Char((b[2] % 16) * 4), Pad>>
    ELSE
        <<B64Char(b[1] \div 4), B64Char((b[1] % 4) * 16 + b[2] \div 16),
          B64Char((b[2] % 16) * 4 + b[3] \div 64), B64Char(b[3] % 64)>>
        \o b64encode(SubSeq(b, 4, Len(b)))

----------------------------------------------------------------------------
(* json.loads, for texts over the tokens  {  }  :  "k"  1  and anything     *)
(* else.  A parsed value is a tuple: <<"int", 1>>, <<"dict">> for {} and    *)
(* <<"dict", "k", v>> for {"k": v}.                                         *)

\* json_data of a result when no JSON was requested (Python None)
JNone == None

RECURSIVE JsonValue(_, _)
\* parse one value starting at s[i]: [ok, v, next]
JsonValue(s, i) ==
    LET fail == [ok |-> FALSE, v |-> JNone, next |-> i]
    IN  IF i > Len(s) THEN fail
        ELSE IF s[i] = "1" THEN [ok |-> TRUE, v |-> <<"int", 1>>, next |-> i + 1]
        ELSE IF s[i] = "{" THEN
            IF i + 1 <= Len(s) /\ s[i + 1] = "}"
            THEN [ok |-> TRUE, v |-> <<"dict">>, next |-> i + 2]
            ELSE IF i + 2 <= Len(s) /\ s[i + 1] = "k" /\ s[i + 2] = ":"
            THEN LET inner == JsonValue(s, i + 3)
                 IN  IF inner.ok /\ inner.next <= Len(s) /\ s[inner.next] = "}"
                     THEN [ok |-> TRUE, v |-> <<"dict", "k", inner.v>>,
                           next |-> inner.next + 1]
                     ELSE fail
            ELSE fail
        ELSE fail

\* json.loads(text): the value, or json.JSONDecodeError
json_loads(text) ==
    LET r == JsonValue(text, 1)
    IN  IF r.ok /\ r.next = Len(text) + 1
        THEN [ok |-> TRUE, v |-> r.v]
        ELSE [ok |-> FALSE, v |-> JNone]

----------------------------------------------------------------------------
(* Inputs *)

\* how many leading provider calls a transport may fail
MaxFailures == 3

Operations == {"analyze_image", "generate_image", "transcribe_audio", "text_to_speech"}

\* the Settings objects: credential absent, empty or present; default models
\* all configured (one per modality), all absent or all empty
SettingsSet ==
    { [openai_api_key |-> k, openai_model_vision |-> m[1], openai_model_image |-> m[2],
       openai_model_stt |-> m[3], openai_model_tts |-> m[4]] :
        k \in {None, EmptyStr, <<"sk-test">>},
        m \in { <<<<"gpt-vision">>, <<"gpt-image">>, <<"whisper">>, <<"tts-1">>>>,
                <<None, None, None, None>>,
                <<EmptyStr, EmptyStr, EmptyStr, EmptyStr>> } }

\* the per-call model override: absent, empty or given
Overrides == {None, EmptyStr, <<"override">>}

\* an optional argument: absent or the given value
Opt(v) == {None, v}

AnalyzeCalls ==
    [op : {"analyze_image"}, image_bytes : {<<77, 97>>}, instruction : {<<"describe">>},
     model_override : Overrides, response_format : {<<"text">>, <<"json">>},
     json_schema : {None, EmptyDict, <<"schema">>},
     max_output_tokens : Opt(<<"256">>), detail : Opt(<<"high">>),
     language : Opt(<<"fr">>)]

GenerateCalls ==
    [op : {"generate_image"}, prompt : {<<"a cat">>}, model_override : Overrides,
     size : Opt(<<"1024x1024">>), background : Opt(<<"transparent">>),
     quality : Opt(<<"high">>), output_format : {<<"png">>}]

TranscribeCalls ==
    [op : {"transcribe_audio"}, audio_bytes : {<<82, 73>>}, model_override : Overrides,
     language : Opt(<<"en">>), prompt : Opt(<<"names">>), timestamps : BOOLEAN]

SpeechCalls ==
    [op : {"text_to_speech"}, text : {<<"hello">>}, model_override : Overrides,
     voice : Opt(<<"nova">>), format : Opt(<<"mp3">>), speed : Opt(<<"1.5">>)]

Calls == AnalyzeCalls \cup GenerateCalls \cup TranscribeCalls \cup SpeechCalls

NoCall == [op |-> "-"]

\* exceptions of the retryable classes a provider call may raise:
\* a transport timeout, a transport error, a provider-side rate limit
TransientExcs ==
    { RawExc("ReadTimeout", <<"timed out">>),
      RawExc("ConnectError", <<"connection refused">>),
      RawExc("RateLimitError", <<"rate limited">>) }

\* an exception outside the retryable classes
FatalExcs == { RawExc("ValueError", <<"bad value">>) }

\* responses of client.responses.create: output_text, and the texts of the
\* content items of output
AnalyzeResponses ==
    { [output_text |-> <<"{", "k", ":", "1", "}">>, output |-> <<>>],
      [output_text |-> <<"o", "k">>, output |-> <<>>],
      [output_text |-> None, output |-> << <<"{", "}">> >>],
      [output_text |-> None, output |-> <<>>] }

\* the first item of the data of a response of client.images.generate
ImageItems ==
    { [has_b64 |-> TRUE,  b64_json |-> <<"T", "W", "F", "u">>, has_url |-> TRUE,  url |-> None],
      [has_b64 |-> TRUE,  b64_json |-> <<"T", "Q", "=", "=">>, has_url |-> TRUE,  url |-> <<"https://img">>],
      [has_b64 |-> TRUE,  b64_json |-> <<"T", "W", "F">>,      has_url |-> FALSE, url |-> None],
      [has_b64 |-> TRUE,  b64_json |-> None,                   has_url |-> TRUE,  url |-> <<"https://img">>],
      [has_b64 |-> FALSE, b64_json |-> None,                   has_url |-> TRUE,  url |-> <<"https://img">>],
      [has_b64 |-> TRUE,  b64_json |-> None,                   has_url |-> TRUE,  url |-> None],
      [has_b64 |-> FALSE, b64_json |-> None,                   has_url |-> FALSE, url |-> None] }

GenerateResponses == { [data |-> <<item>>] : item \in ImageItems } \cup { [data |-> <<>>] }

\* responses of client.audio.transcriptions.create: an object with attributes
\* or a dict with keys
TranscribeResponses ==
    { [shape |-> "obj",  fields |-> [text |-> <<"hi">>, segments |-> <<"0-1">>]],
      [shape |-> "obj",  fields |-> [text |-> <<"hi">>]],
      [shape |-> "obj",  fields |-> [text |-> None]],
      [shape |-> "dict", fields |-> [text |-> <<"hi">>, segments |-> <<"0-1">>]],
      [shape |-> "dict", fields |-> [text |-> <<"hi">>]] }

\* responses of client.audio.speech.create: bytes, an object with content, an
\* object with read(), both, or none of these
SpeechResponses ==
    { [is_bytes |-> TRUE,  has_content |-> FALSE, has_read |-> FALSE, bytes |-> <<1>>, content |-> <<>>,  read |-> <<>>],
      [is_bytes |-> FALSE, has_content |-> TRUE,  has_read |-> FALSE, bytes |-> <<>>,  content |-> <<2>>, read |-> <<>>],
      [is_bytes |-> FALSE, has_content |-> FALSE, has_read |-> TRUE,  bytes |-> <<>>,  content |-> <<>>,  read |-> <<3>>],
      [is_bytes |-> FALSE, has_content |-> TRUE,  has_read |-> TRUE,  bytes |-> <<>>,  content |-> <<2>>, read |-> <<3>>],
      [is_bytes |-> FALSE, has_content |-> FALSE, has_read |-> FALSE, bytes |-> <<>>,  content |-> <<>>,  read |-> <<>>] }

Responses(op) ==
    CASE op = "analyze_image"    -> AnalyzeResponses
      [] op = "generate_image"   -> GenerateResponses
      [] op = "transcribe_audio" -> TranscribeResponses
      [] op = "text_to_speech"   -> SpeechResponses

Raise(e) == [raises |-> TRUE, exc |-> e]
Respond(r) == [raises |-> FALSE, resp |-> r]

\* a transport: its first `failures` provider calls raise `exc`, every later
\* one produces `then`, a response or an exception outside the retryable classes
Transports(op) ==
    [failures : {0}, exc : {RawExc("ReadTimeout", <<"timed out">>)},
     then : {Raise(e) : e \in FatalExcs} \cup {Respond(r) : r \in Responses(op)}]
    \cup
    [failures : 1..MaxFailures, exc : TransientExcs,
     then : {Raise(e) : e \in FatalExcs} \cup {Respond(r) : r \in Responses(op)}]

\* provider call number i on transport t
TransportCall(t, i) == IF i <= t.failures THEN Raise(t.exc) ELSE t.then

NoTransport == [failures |-> 0]

\* outcomes of the secondary httpx.get(url) followed by raise_for_status()
FetchOutcomes ==
    { Respond(<<137, 80>>),
      Raise(RawExc("HTTPStatusError", <<"404 Not Found">>)),
      Raise(RawExc("ConnectTimeout", <<"timed out">>)) }

\* the ticks of the clock in a millisecond
TicksPerMs == 2

\* the ticks one stretch of request building may take, and the ticks a
\* provider call may take to answer
BuildTimes == {0, 2}
Latencies == {1, 4}

\* the timing of one run of a body: the clock when it starts, the ticks each
\* stretch of request building takes and the ticks the provider call takes
Timings(now) == [now : {now}, build : BuildTimes, latency : Latencies]

NoWindow == [issued |-> 0, answered |-> 0]

Returned(r) == [status |-> "returned", result |-> r]
Raised(e) == [status |-> "raised", exc |-> e]
NoOutcome == [status |-> "none"]

----------------------------------------------------------------------------
(* The client *)

Init ==
    /\ settings \in SettingsSet
    /\ client = "new"
    /\ initError = NoCause
    /\ call = NoCall
    /\ transport = NoTransport
    /\ pc = "idle"
    /\ attempts = 0
    /\ providerCalls = 0
    /\ fetchCalls = 0
    /\ fetchLog = <<>>
    /\ sent = <<>>
    /\ last = NoOutcome
    /\ outcome = NoOutcome
    /\ slept = <<>>
    /\ clock = 0
    /\ window = NoWindow

\* __init__ refusing only a credential that is None
Construct_not_none ==
    /\ client = "new"
    /\ IF settings.openai_api_key = None
       THEN /\ client' = "failed"
            /\ initError' = mcp_error(INVALID_ARGUMENT, <<"OPENAI_API_KEY is required">>, NoCause)
       ELSE /\ client' = "ready"
            /\ initError' = NoCause
    /\ UNCHANGED <<settings, call, transport, pc, attempts, providerCalls,
                   fetchCalls, fetchLog, sent, last, outcome, slept, clock, window>>

\* OpenAIClient.__init__
Construct ==
    /\ client = "new"
    /\ IF ~Truthy(settings.openai_api_key)
       THEN /\ client' = "failed"
            /\ initError' = mcp_error(INVALID_ARGUMENT, <<"OPENAI_API_KEY is required">>, NoCause)
       ELSE /\ client' = "ready"
            /\ initError' = NoCause
    /\ UNCHANGED <<settings, call, transport, pc, attempts, providerCalls,
                   fetchCalls, fetchLog, sent, last, outcome, slept, clock, window>>

\* a caller invokes one of the four operations of a constructed client, over
\* some transport; tenacity starts its attempt loop
Invoke ==
    /\ client = "ready"
    /\ pc = "idle"
    /\ \E c \in Calls :
        /\ call' = c
        /\ transport' \in Transports(c.op)
    /\ pc' = "attempt"
    /\ UNCHANGED <<settings, client, initError, attempts, providerCalls,
                   fetchCalls, fetchLog, sent, last, outcome, slept, clock, window>>

\* _require_model refusing only a model that is None
_require_model_not_none(override, default, label) ==
    LET model == Or(override, default)
    IN  IF model = None
        THEN Raised(mcp_error(INVALID_ARGUMENT, <<"Model not configured for">> \o label, NoCause))
        ELSE Returned(model)

\* _require_model with the configured default taking precedence
_require_model_default_first(override, default, label) ==
    LET model == Or(default, override)
    IN  IF ~Truthy(model)
        THEN Raised(mcp_error(INVALID_ARGUMENT, <<"Model not configured for">> \o label, NoCause))
        ELSE Returned(model)

\* OpenAIClient._require_model
_require_model(override, default, label) ==
    LET model == Or(override, default)
    IN  IF ~Truthy(model)
        THEN Raised(mcp_error(INVALID_ARGUMENT, <<"Model not configured for">> \o label, NoCause))
        ELSE Returned(model)

\* the except clauses without the one for httpx.TimeoutException
call_error_no_timeout(label, exc) ==
    mcp_error(OPENAI_ERROR,
              <<"OpenAI">> \o label \o <<"error:", exc.type, "-">> \o exc.message, exc)

\* the except clauses around each provider call
call_error(label, exc) ==
    IF IsInstance(exc, {"httpx.TimeoutException"})
    THEN mcp_error(TIMEOUT, <<"OpenAI request timed out:">> \o exc.message, exc)
    ELSE mcp_error(OPENAI_ERROR,
                   <<"OpenAI">> \o label \o <<"error:", exc.type, "-">> \o exc.message, exc)

\* the schema check refusing only a schema that is None
schema_missing_not_none(c) == c.response_format = <<"json">> /\ c.json_schema = None

\* analyze_image: JSON output was requested and no schema came with it
schema_missing(c) == c.response_format = <<"json">> /\ ~Truthy(c.json_schema)

\* the handler blaming the caller's input for the model's output
parse_failure_invalid_argument(exc) ==
    mcp_error(INVALID_ARGUMENT, <<"Model output was not valid JSON">>, exc)

\* analyze_image: the handler of json.JSONDecodeError
parse_failure(exc) == mcp_error(OPENAI_ERROR, <<"Model output was not valid JSON">>, exc)

\* the decision order with the URL tried first
image_source_url_first(item) ==
    LET has_b64 == item.has_b64
        b64_val == IF has_b64 THEN item.b64_json ELSE None
        has_url == item.has_url
        url_val == IF has_url THEN item.url ELSE None
    IN  IF has_url /\ url_val # None THEN "url"
        ELSE IF has_b64 /\ b64_val # None THEN "b64_json"
        ELSE "none"

\* generate_image: where the image of a response item comes from
image_source(item) ==
    LET has_b64 == item.has_b64
        b64_val == IF has_b64 THEN item.b64_json ELSE None
        has_url == item.has_url
        url_val == IF has_url THEN item.url ELSE None
    IN  IF has_b64 /\ b64_val # None THEN "b64_json"
        ELSE IF has_url /\ url_val # None THEN "url"
        ELSE "none"

\* what one run of an operation body did: its outcome, the payloads it handed
\* to the provider and whether it issued the secondary fetch
Ran(out, payloads, fetched) == [out |-> out, sent |-> payloads, fetched |-> fetched]

\* int((time.monotonic() - started) * 1000)
elapsed_ms(started, now) == (now - started) \div TicksPerMs

\* a run together with the instants its provider call was issued and answered
Timed(issued, answered, ran) == ran @@ [issued |-> issued, answered |-> answered]

\* the body of OpenAIClient.analyze_image, over the provider call's outcome
analyze_image_body(c, st, reply, t) ==
    LET model == _require_model(c.model_override, st.openai_model_vision, <<"vision">>)
        payload_instruction ==
            IF Truthy(c.language)
            THEN <<"Respond in">> \o c.language \o <<".">> \o c.instruction
            ELSE c.instruction
        image_payload ==
            [type |-> <<"input_image">>, image_base64 |-> b64encode(c.image_bytes)]
            @@ (IF Truthy(c.detail) THEN [detail |-> c.detail] ELSE <<>>)
        content == <<[type |-> <<"input_text">>, text |-> payload_instruction], image_payload>>
        response_format_payload ==
            IF c.response_format = <<"json">>
            THEN [type |-> <<"json_schema">>,
                  json_schema |-> [name |-> <<"image_analysis">>, schema |-> c.json_schema,
                                   strict |-> TRUE]]
            ELSE None
        params ==
            NotNone([model |-> model.result,
                     input |-> <<[role |-> <<"user">>, content |-> content]>>,
                     max_output_tokens |-> c.max_output_tokens,
                     response_format |-> response_format_payload])
        text == IF reply.resp.output_text = None
                THEN reply.resp.output[1]
                ELSE reply.resp.output_text
        parsed == json_loads(text)
        started == t.now + t.build
        issued == started + t.build
        answered == issued + t.latency
        duration_ms == elapsed_ms(started, answered)
    IN  Timed(issued, answered,
        IF model.status = "raised" THEN Ran(model, <<>>, FALSE)
        ELSE IF schema_missing(c)
        THEN Ran(Raised(mcp_error(INVALID_ARGUMENT,
                                  <<"json_schema is required for JSON responses">>, NoCause)),
                 <<>>, FALSE)
        ELSE IF reply.raises
        THEN Ran(Raised(call_error(<<"response">>, reply.exc)), <<params>>, FALSE)
        ELSE IF reply.resp.output_text = None /\ Len(reply.resp.output) = 0
        THEN Ran(Raised(RawExc("IndexError", <<"list index out of range">>)), <<params>>, FALSE)
        ELSE IF c.response_format = <<"json">> /\ ~parsed.ok
        THEN Ran(Raised(parse_failure(RawExc("JSONDecodeError", <<"Expecting value">>))),
                 <<params>>, FALSE)
        ELSE Ran(Returned([text |-> text,
                           json_data |-> IF c.response_format = <<"json">>
                                         THEN parsed.v ELSE None,
                           duration_ms |-> duration_ms]),
                 <<params>>, FALSE))

\* the body of OpenAIClient.generate_image, over the outcomes of the provider
\* call and of the secondary fetch
generate_image_body(c, st, reply, fetch, t) ==
    LET model == _require_model(c.model_override, st.openai_model_image, <<"image">>)
        params ==
            NotNone([model |-> model.result, prompt |-> c.prompt, size |-> c.size,
                     background |-> c.background, quality |-> c.quality])
        item == reply.resp.data[1]
        has_b64 == item.has_b64
        b64_val == IF has_b64 THEN item.b64_json ELSE None
        has_url == item.has_url
        url_val == IF has_url THEN item.url ELSE None
        decoded == b64decode(b64_val)
        error_details ==
            <<"has_b64=", Str(has_b64),
              "b64_val=", Str(IF Truthy(b64_val) THEN b64_val # None ELSE FALSE),
              "has_url=", Str(has_url),
              "url_val=", Str(IF Truthy(url_val) THEN url_val # None ELSE FALSE)>>
        started == t.now
        issued == started + t.build
        answered == issued + t.latency
        duration_ms == elapsed_ms(started, answered)
    IN  Timed(issued, answered,
        IF model.status = "raised" THEN Ran(model, <<>>, FALSE)
        ELSE IF reply.raises
        THEN Ran(Raised(call_error(<<"image", "generation">>, reply.exc)), <<params>>, FALSE)
        ELSE IF Len(reply.resp.data) = 0
        THEN Ran(Raised(RawExc("IndexError", <<"list index out of range">>)), <<params>>, FALSE)
        ELSE IF image_source(item) = "b64_json"
        THEN IF decoded.ok
             THEN Ran(Returned([data |-> decoded.bytes, duration_ms |-> duration_ms]),
                      <<params>>, FALSE)
             ELSE Ran(Raised(RawExc("Error", <<"Incorrect padding">>)), <<params>>, FALSE)
        ELSE IF image_source(item) = "url"
        THEN IF fetch.raises
             THEN Ran(Raised(fetch.exc), <<params>>, TRUE)
             ELSE Ran(Returned([data |-> fetch.resp, duration_ms |-> duration_ms]),
                      <<params>>, TRUE)
        ELSE Ran(Raised(mcp_error(OPENAI_ERROR,
                                  <<"No image data in response">> \o error_details, NoCause)),
                 <<params>>, FALSE))

\* the body of OpenAIClient.transcribe_audio, over the provider call's outcome
transcribe_audio_body(c, st, reply, t) ==
    LET model == _require_model(c.model_override, st.openai_model_stt, <<"transcription">>)
        response_format == IF c.timestamps THEN <<"verbose_json">> ELSE <<"json">>
        params ==
            [model |-> model.result, file |-> <<<<"audio">>, c.audio_bytes>>,
             language |-> c.language, prompt |-> c.prompt,
             response_format |-> response_format]
        response == reply.resp
        Get(key) == IF key \in DOMAIN response.fields THEN response.fields[key] ELSE None
        attr_text == IF response.shape = "obj" THEN Get("text") ELSE None
        text == IF Truthy(attr_text) THEN attr_text ELSE Get("text")
        segments ==
            IF response.shape = "obj" /\ "segments" \in DOMAIN response.fields
            THEN response.fields["segments"]
            ELSE IF response.shape = "dict" THEN Get("segments")
            ELSE None
        started == t.now + t.build
        issued == started
        answered == issued + t.latency
        duration_ms == elapsed_ms(started, answered)
    IN  Timed(issued, answered,
        IF model.status = "raised" THEN Ran(model, <<>>, FALSE)
        ELSE IF reply.raises
        THEN Ran(Raised(call_error(<<"transcription">>, reply.exc)), <<params>>, FALSE)
        ELSE IF ~Truthy(attr_text) /\ response.shape # "dict"
        THEN Ran(Raised(RawExc("AttributeError", <<"object has no attribute 'get'">>)),
                 <<params>>, FALSE)
        ELSE Ran(Returned([text |-> text, segments |-> segments,
                           duration_ms |-> duration_ms]),
                 <<params>>, FALSE))

\* _extract_binary
_extract_binary(response) ==
    IF response.is_bytes THEN Returned(response.bytes)
    ELSE IF response.has_content THEN Returned(response.content)
    ELSE IF response.has_read THEN Returned(response.read)
    ELSE Raised(RawExc("TypeError", <<"cannot convert object to bytes">>))

\* the body of OpenAIClient.text_to_speech, over the provider call's outcome
text_to_speech_body(c, st, reply, t) ==
    LET model == _require_model(c.model_override, st.openai_model_tts, <<"tts">>)
        voice_to_use == Or(c.voice, <<"alloy">>)
        params ==
            NotNone([model |-> model.result, voice |-> voice_to_use, input |-> c.text,
                     response_format |-> c.format, speed |-> c.speed])
        data == _extract_binary(reply.resp)
        started == t.now
        issued == started + t.build
        answered == issued + t.latency
        duration_ms == elapsed_ms(started, answered)
    IN  Timed(issued, answered,
        IF model.status = "raised" THEN Ran(model, <<>>, FALSE)
        ELSE IF reply.raises
        THEN Ran(Raised(call_error(<<"TTS">>, reply.exc)), <<params>>, FALSE)
        ELSE IF data.status = "raised" THEN Ran(data, <<params>>, FALSE)
        ELSE Ran(Returned([data |-> data.result, duration_ms |-> duration_ms]),
                 <<params>>, FALSE))

\* tenacity runs the wrapped body once more: what the run leaves behind
Attempted(ran) ==
    /\ attempts' = attempts + 1
    /\ last' = ran.out
    /\ sent' = sent \o ran.sent
    /\ providerCalls' = providerCalls + Len(ran.sent)
    /\ pc' = "attempted"
    /\ IF Len(ran.sent) > 0
       THEN /\ clock' = ran.answered
            /\ window' = [issued |-> ran.issued, answered |-> ran.answered]
       ELSE /\ clock' = clock
            /\ window' = window
    /\ UNCHANGED <<settings, client, initError, call, transport, outcome, slept>>

\* OpenAIClient.analyze_image, one attempt
analyze_image ==
    /\ pc = "attempt"
    /\ call.op = "analyze_image"
    /\ \E t \in Timings(clock) :
        Attempted(analyze_image_body(call, settings,
                  TransportCall(transport, providerCalls + 1), t))
    /\ UNCHANGED <<fetchCalls, fetchLog>>

\* OpenAIClient.generate_image, one attempt
generate_image ==
    /\ pc = "attempt"
    /\ call.op = "generate_image"
    /\ \E fetch \in FetchOutcomes, t \in Timings(clock) :
        LET ran == generate_image_body(call, settings,
                                       TransportCall(transport, providerCalls + 1), fetch, t)
        IN  /\ Attempted(ran)
            /\ fetchCalls' = IF ran.fetched THEN fetchCalls + 1 ELSE fetchCalls
            /\ fetchLog' = IF ran.fetched THEN Append(fetchLog, fetch) ELSE fetchLog

\* OpenAIClient.transcribe_audio, one attempt
transcribe_audio ==
    /\ pc = "attempt"
    /\ call.op = "transcribe_audio"
    /\ \E t \in Timings(clock) :
        Attempted(transcribe_audio_body(call, settings,
                  TransportCall(transport, providerCalls + 1), t))
    /\ UNCHANGED <<fetchCalls, fetchLog>>

\* OpenAIClient.text_to_speech, one attempt
text_to_speech ==
    /\ pc = "attempt"
    /\ call.op = "text_to_speech"
    /\ \E t \in Timings(clock) :
        Attempted(text_to_speech_body(call, settings,
                  TransportCall(transport, providerCalls + 1), t))
    /\ UNCHANGED <<fetchCalls, fetchLog>>

\* wait_exponential(multiplier=0.5, min=0.5, max=4) after attempt n, in
\* milliseconds
RECURSIVE Pow2(_)
Pow2(n) == IF n = 0 THEN 1 ELSE 2 * Pow2(n - 1)

Min(a, b) == IF a < b THEN a ELSE b
Max(a, b) == IF a > b THEN a ELSE b

\* a schedule whose exponent is the attempt number itself
wait_exponential_from_one(n) == Max(500, Min(500 * Pow2(n), 4000))

wait_exponential(n) == Max(500, Min(500 * Pow2(n - 1), 4000))

\* stop_after_attempt(3)
stop_after_attempt(n) == n >= MaxAttempts

\* the decision tenacity's retry(reraise=True, ...) takes after an attempt:
\* hand the result or the exception to the caller, or sleep and run again
Retrying ==
    /\ pc = "attempted"
    /\ IF last.status = "returned"
       THEN /\ outcome' = last
            /\ pc' = "done"
            /\ slept' = slept
            /\ clock' = clock
       ELSE IF ~retry_if_exception_type(last.exc)
       THEN /\ outcome' = last
            /\ pc' = "done"
            /\ slept' = slept
            /\ clock' = clock
       ELSE IF stop_after_attempt(attempts)
       THEN /\ outcome' = last
            /\ pc' = "done"
            /\ slept' = slept
            /\ clock' = clock
       ELSE /\ slept' = Append(slept, wait_exponential(attempts))
            /\ clock' = clock + wait_exponential(attempts) * TicksPerMs
            /\ pc' = "attempt"
            /\ outcome' = outcome
    /\ UNCHANGED <<settings, client, initError, call, transport, attempts,
                   providerCalls, fetchCalls, fetchLog, sent, last, window>>

Next ==
    \/ Construct
    \/ Invoke
    \/ analyze_image
    \/ generate_image
    \/ transcribe_audio
    \/ text_to_speech
    \/ Retrying

Spec == Init /\ [][Next]_vars

----------------------------------------------------------------------------
(* Vocabulary of the properties *)

\* a value that is neither absent nor empty
Present(v) == v # None /\ v # EmptyStr /\ v # EmptyDict

\* the configured default model of an operation's modality
ConfiguredDefault(op) ==
    CASE op = "analyze_image"    -> settings.openai_model_vision
      [] op = "generate_image"   -> settings.openai_model_image
      [] op = "transcribe_audio" -> settings.openai_model_stt
      [] op = "text_to_speech"   -> settings.openai_model_tts

\* the label that names an operation's modality
ModalityLabel(op) ==
    CASE op = "analyze_image"    -> "vision"
      [] op = "generate_image"   -> "image"
      [] op = "transcribe_audio" -> "transcription"
      [] op = "text_to_speech"   -> "tts"

Invoked == call # NoCall

\* the override or the configured default names a model
ModelResolves == Present(call.model_override) \/ Present(ConfiguredDefault(call.op))

\* analyze_image asked for JSON without a schema
JsonWithoutSchema ==
    /\ call.op = "analyze_image"
    /\ call.response_format = <<"json">>
    /\ ~Present(call.json_schema)

\* the arguments pass the checks made before the provider call
ArgsValid == ModelResolves /\ ~JsonWithoutSchema

\* a response every operation can turn into a result
UsableResponse(op) ==
    CASE op = "analyze_image"    -> [output_text |-> <<"{", "k", ":", "1", "}">>, output |-> <<>>]
      [] op = "generate_image"   -> [data |-> <<[has_b64 |-> TRUE, b64_json |-> <<"T", "W", "F", "u">>,
                                               has_url |-> TRUE, url |-> None]>>]
      [] op = "transcribe_audio" -> [shape |-> "obj", fields |-> [text |-> <<"hi">>]]
      [] op = "text_to_speech"   -> [is_bytes |-> TRUE, has_content |-> FALSE, has_read |-> FALSE,
                                     bytes |-> <<1>>, content |-> <<>>, read |-> <<>>]

\* token tok occurs in message m
Contains(m, tok) == \E i \in 1..Len(m) : m[i] = tok

\* the operation failed with an MCPError of kind k
FailedWith(o, k) == o.status = "raised" /\ o.exc.type = "MCPError" /\ o.exc.kind = k

----------------------------------------------------------------------------
(* Properties *)

\* C1: over a transport whose first two provider calls fail with a transient
\* error and whose third call succeeds, an operation with valid arguments makes
\* a third attempt, succeeds on it and returns a result.
C1_SucceedsOnThirdAttempt ==
    (/\ pc = "done"
     /\ ArgsValid
     /\ transport.failures = 2
     /\ transport.then = Respond(UsableResponse(call.op)))
    => (outcome.status = "returned" /\ attempts = 3 /\ providerCalls = 3)

\* C2: over a transport whose provider call fails with a transient error on
\* every attempt, an operation with valid arguments fails after exactly 3
\* provider calls and the caller gets the transport's exception itself, unwrapped.
C2_FailsAfterThreeAttempts ==
    (/\ pc = "done"
     /\ ArgsValid
     /\ transport.failures >= MaxAttempts)
    => (providerCalls = 3 /\ outcome = Raised(transport.exc))

\* the first provider call raises an exception outside the retryable classes
FirstCallFatal ==
    /\ Invoked
    /\ ArgsValid
    /\ transport.failures = 0
    /\ transport.then.raises
    /\ transport.then.exc.type \notin {"ReadTimeout", "ConnectError", "RateLimitError"}

\* C3: when the provider call raises a non-transient exception, the operation
\* fails on that first occurrence: one attempt, exactly one provider call, no
\* wait and no further attempt.
C3_FatalFailsAtOnce ==
    FirstCallFatal =>
        /\ attempts <= 1
        /\ providerCalls <= 1
        /\ slept = <<>>
        /\ pc = "done" => (outcome.status = "raised" /\ attempts = 1 /\ providerCalls = 1)

C3_Witness ==
    /\ pc = "done"
    /\ FirstCallFatal
    /\ call.op = "text_to_speech"
    /\ providerCalls = 1

\* C4: constructing the client with an absent (None or empty) credential fails
\* with INVALID_ARGUMENT; no operation is ever invoked on such a client and no
\* provider call or fetch is ever issued.
C4_NoCredentialNoCalls ==
    ~Present(settings.openai_api_key) =>
        /\ client # "ready"
        /\ ~Invoked
        /\ pc = "idle"
        /\ providerCalls = 0
        /\ fetchCalls = 0
        /\ sent = <<>>
        /\ client # "new" =>
            (client = "failed" /\ initError.type = "MCPError" /\ initError.kind = INVALID_ARGUMENT)

C4_Witness ==
    /\ client = "failed"
    /\ settings.openai_api_key = EmptyStr
    /\ initError.kind = INVALID_ARGUMENT

\* C5: when both the model override and the configured default of the
\* operation's modality are absent or empty, the call fails with
\* INVALID_ARGUMENT whose message names the modality label, in exactly one
\* attempt and with no provider call.
C5_NoModelInvalidArgument ==
    (Invoked /\ ~ModelResolves) =>
        /\ providerCalls = 0
        /\ fetchCalls = 0
        /\ sent = <<>>
        /\ attempts <= 1
        /\ pc \in {"attempted", "done"} =>
            (/\ FailedWith(last, INVALID_ARGUMENT)
             /\ Contains(last.exc.message, ModalityLabel(call.op)))
        /\ pc = "done" => (outcome = last /\ attempts = 1)

C5_Witness ==
    /\ pc = "done"
    /\ call.op = "transcribe_audio"
    /\ call.model_override = EmptyStr
    /\ settings.openai_model_stt = None
    /\ FailedWith(outcome, INVALID_ARGUMENT)

\* C6: analyze_image with response_format "json" and no JSON schema fails
\* with INVALID_ARGUMENT before any provider call, in exactly one attempt, and
\* never as OPENAI_ERROR.
C6_JsonNeedsSchema ==
    (Invoked /\ JsonWithoutSchema) =>
        /\ providerCalls = 0
        /\ sent = <<>>
        /\ attempts <= 1
        /\ pc \in {"attempted", "done"} => FailedWith(last, INVALID_ARGUMENT)
        /\ pc = "done" => (outcome = last /\ attempts = 1 /\ outcome.exc.kind # OPENAI_ERROR)

C6_Witness ==
    /\ pc = "done"
    /\ JsonWithoutSchema
    /\ ModelResolves
    /\ call.json_schema = EmptyDict
    /\ Contains(outcome.exc.message, "json_schema is required for JSON responses")

\* provider call number i of a generate_image invocation was answered with a
\* response that carries an item
Answered(i) ==
    /\ ~TransportCall(transport, i).raises
    /\ Len(TransportCall(transport, i).resp.data) > 0

AnsweredItem(i) == TransportCall(transport, i).resp.data[1]

\* the inline base64 field, the URL field of an item is present
InlinePresent(item) == item.has_b64 /\ item.b64_json # None
UrlPresent(item) == item.has_url /\ item.url # None

\* C7: generate_image resolves a provider response in a fixed order.  With the
\* inline base64 field present, no fetch is issued for that response and the
\* result bytes are its decoding (they encode back to the field); else with a
\* URL present, exactly one fetch is issued for that response and the result
\* bytes are that fetch's body when it succeeds; with neither, the operation
\* fails with OPENAI_ERROR and returns no result.
C7_DecisionOrder ==
    (Invoked /\ call.op = "generate_image") =>
        /\ fetchCalls = Cardinality({ i \in 1..providerCalls :
                            Answered(i) /\ ~InlinePresent(AnsweredItem(i))
                                        /\ UrlPresent(AnsweredItem(i)) })
        /\ Len(fetchLog) = fetchCalls
        /\ (pc \in {"attempted", "done"} /\ providerCalls >= 1 /\ Answered(providerCalls)) =>
            LET item == AnsweredItem(providerCalls)
            IN  /\ InlinePresent(item) =>
                    /\ last.status = "returned" => b64encode(last.result.data) = item.b64_json
                    /\ Len(item.b64_json) % 4 = 0 => last.status = "returned"
                /\ (~InlinePresent(item) /\ UrlPresent(item)) =>
                    IF fetchLog[Len(fetchLog)].raises
                    THEN last.status = "raised"
                    ELSE /\ last.status = "returned"
                         /\ last.result.data = fetchLog[Len(fetchLog)].resp
                /\ (~InlinePresent(item) /\ ~UrlPresent(item)) => FailedWith(last, OPENAI_ERROR)
        /\ (pc = "done" /\ last.status = "returned") => outcome = last

C7_Witness ==
    /\ pc = "done"
    /\ call.op = "generate_image"
    /\ providerCalls = 1
    /\ Answered(1)
    /\ InlinePresent(AnsweredItem(1))
    /\ UrlPresent(AnsweredItem(1))
    /\ outcome.status = "returned"
    /\ outcome.result.data = <<77>>
    /\ fetchCalls = 0

\* analyze_image asked for JSON with a schema and the provider answers the
\* first call with a text that is no JSON
AnsweredWithNonJson ==
    /\ Invoked
    /\ call.op = "analyze_image"
    /\ ArgsValid
    /\ call.response_format = <<"json">>
    /\ transport.failures = 0
    /\ ~transport.then.raises
    /\ transport.then.resp.output_text = <<"o", "k">>

\* C8: analyze_image with response_format "json" and a schema, whose provider
\* call succeeds with a text that is not valid JSON, fails with OPENAI_ERROR
\* (not INVALID_ARGUMENT), returns no result and is not retried: exactly one
\* provider call.
C8_InvalidJsonProviderError ==
    AnsweredWithNonJson =>
        /\ attempts <= 1
        /\ providerCalls <= 1
        /\ pc = "done" =>
            (/\ FailedWith(outcome, OPENAI_ERROR)
             /\ outcome.exc.cause.type = "JSONDecodeError"
             /\ attempts = 1
             /\ providerCalls = 1)

C8_Witness ==
    /\ pc = "done"
    /\ AnsweredWithNonJson
    /\ outcome.status = "raised"
    /\ providerCalls = 1

\* C9: every failure of every operation surfaces as an MCPError of kind
\* INVALID_ARGUMENT, TIMEOUT or OPENAI_ERROR; no other exception escapes.
C9_OnlyFixedKinds ==
    (pc = "done" /\ outcome.status = "raised") =>
        (outcome.exc.type = "MCPError" /\ outcome.exc.kind \in ErrorKinds)

\* the latest provider call of the invocation raised
LatestCallRaised ==
    /\ Invoked
    /\ pc \in {"attempted", "done"}
    /\ providerCalls >= 1
    /\ TransportCall(transport, providerCalls).raises

LatestCallExc == TransportCall(transport, providerCalls).exc

\* a transport-level timeout
TransportTimeout(e) == e.type \in {"ReadTimeout", "ConnectTimeout"}

\* the kind a failed provider call surfaces as
C10_Kind ==
    LatestCallRaised =>
        /\ last.status = "raised"
        /\ last.exc.type = "MCPError"
        /\ last.exc.kind = IF TransportTimeout(LatestCallExc) THEN TIMEOUT ELSE OPENAI_ERROR
        /\ last.exc.kind # INVALID_ARGUMENT
        /\ last.exc.cause = LatestCallExc
        /\ pc = "done" => outcome = last

\* the words that name an operation
OperationNames(op) ==
    CASE op = "analyze_image"    -> {"analyze_image", "analyze", "analysis", "image", "vision"}
      [] op = "generate_image"   -> {"generate_image", "generate", "generation", "image"}
      [] op = "transcribe_audio" -> {"transcribe_audio", "transcribe", "transcription", "audio"}
      [] op = "text_to_speech"   -> {"text_to_speech", "speech", "tts", "TTS"}

\* the label the code puts in the message of a failed provider call
ErrorLabel(op) ==
    CASE op = "analyze_image"    -> {"response"}
      [] op = "generate_image"   -> {"image", "generation"}
      [] op = "transcribe_audio" -> {"transcription"}
      [] op = "text_to_speech"   -> {"TTS"}

\* C10 as stated: a failed provider call surfaces as TIMEOUT for a transport
\* timeout and else as OPENAI_ERROR, never INVALID_ARGUMENT, and the
\* OPENAI_ERROR message embeds the exception's type name and the operation's name.
C10_MessageNamesOperation ==
    /\ C10_Kind
    /\ (LatestCallRaised /\ FailedWith(last, OPENAI_ERROR)) =>
        /\ Contains(last.exc.message, LatestCallExc.type)
        /\ \E tok \in OperationNames(call.op) : Contains(last.exc.message, tok)

\* C10, amended: a failed provider call surfaces as TIMEOUT for a transport
\* timeout and else as OPENAI_ERROR, never INVALID_ARGUMENT, and the
\* OPENAI_ERROR message embeds the exception's type name and the operation's
\* fixed label: "response" for analyze_image, "image generation",
\* "transcription" and "TTS" for the others.
C10_MessageCarriesLabel ==
    /\ C10_Kind
    /\ (LatestCallRaised /\ FailedWith(last, OPENAI_ERROR)) =>
        /\ Contains(last.exc.message, LatestCallExc.type)
        /\ \A tok \in ErrorLabel(call.op) : Contains(last.exc.message, tok)
    /\ (LatestCallRaised /\ FailedWith(last, TIMEOUT)) =>
        \A i \in 1..Len(LatestCallExc.message) :
            Contains(last.exc.message, LatestCallExc.message[i])

C10_Witness ==
    /\ pc = "done"
    /\ call.op = "analyze_image"
    /\ LatestCallRaised
    /\ LatestCallExc.type = "RateLimitError"
    /\ FailedWith(outcome, OPENAI_ERROR)
    /\ Contains(outcome.exc.message, "response")

\* C11: no payload handed to a provider call has a field whose value is
\* None: an optional parameter left absent is not in the request at all.
C11_NoAbsentField ==
    \A i \in 1..Len(sent) : \A key \in DOMAIN sent[i] : sent[i][key] # None

\* the response the transcription was made from carried segments
ResponseCarriedSegments ==
    /\ ~TransportCall(transport, providerCalls).raises
    /\ "segments" \in DOMAIN TransportCall(transport, providerCalls).resp.fields
    /\ TransportCall(transport, providerCalls).resp.fields["segments"] # None

\* C12: in the result of transcribe_audio, segments is other than None only
\* if the caller requested timestamps and the provider response carried
\* segments; with timestamps false, segments is None whatever the response holds.
C12_SegmentsOnlyWithTimestamps ==
    (pc = "done" /\ call.op = "transcribe_audio" /\ outcome.status = "returned") =>
        (outcome.result.segments # None => (call.timestamps /\ ResponseCarriedSegments))

\* C13: in every returned result duration_ms is non-negative and is the
\* monotonic time, in whole milliseconds, from the instant just before the
\* provider call is issued to the instant just after its response is
\* obtained: no request building falls inside the measured window.
C13_DurationIsCallWindow ==
    (pc = "done" /\ outcome.status = "returned") =>
        /\ outcome.result.duration_ms >= 0
        /\ outcome.result.duration_ms = (window.answered - window.issued) \div TicksPerMs

\* C14: the model named in every payload handed to the provider is the
\* override when the override is non-empty, and else the configured default of
\* the operation's modality; a non-empty override wins over a configured default.
C14_EffectiveModel ==
    \A i \in 1..Len(sent) :
        /\ "model" \in DOMAIN sent[i]
        /\ Present(sent[i].model)
        /\ sent[i].model = IF Present(call.model_override)
                           THEN call.model_override
                           ELSE ConfiguredDefault(call.op)

C14_Witness ==
    /\ pc = "done"
    /\ call.op = "generate_image"
    /\ Present(call.model_override)
    /\ Present(settings.openai_model_image)
    /\ Len(sent) = 1
    /\ sent[1].model = <<"override">>

\* C15: the waits before re-issued attempts follow the capped exponential
\* schedule without jitter, min(4, 0.5 * 2^(n-1)) after the n-th failed attempt:
\* 0.5 after the first and 1.0 after the second; there is no wait after a
\* third failure and never more than 3 attempts.
C15_WaitSchedule ==
    /\ slept \in {<<>>, <<500>>, <<500, 1000>>}
    /\ attempts <= 3
    /\ pc = "attempt" => Len(slept) = attempts
    /\ pc \in {"attempted", "done"} => Len(slept) = attempts - 1

C15_Witness ==
    /\ pc = "done"
    /\ attempts = 3
    /\ slept = <<500, 1000>>
    /\ outcome.status = "raised"

\* provider call number i of generate_image was answered with an item that
\* has a URL and no inline image, and the fetch of that URL failed
UrlFetchFailed(i) ==
    /\ Answered(i)
    /\ ~InlinePresent(AnsweredItem(i))
    /\ UrlPresent(AnsweredItem(i))
    /\ i <= Len(fetchLog)
    /\ fetchLog[i].raises
    /\ fetchLog[i].exc.type \in {"HTTPStatusError", "ConnectTimeout"}

\* C16: an invocation issues the provider call at most 3 times, and more than
\* once only in generate_image, after a provider call answered with a URL-only
\* item whose fetch failed: the failure is retried by re-running the whole
\* operation, provider call included, up to 3 calls and 3 fetches, and when
\* every fetch fails the fetch's own exception surfaces.  The other three
\* operations issue the provider call at most once.
C16_OnlyFetchFailureRetries ==
    /\ providerCalls <= 3
    /\ fetchCalls <= 3
    /\ (Invoked /\ call.op # "generate_image") => (providerCalls <= 1 /\ fetchCalls = 0)
    /\ providerCalls >= 2 =>
        /\ call.op = "generate_image"
        /\ \A i \in 1..(providerCalls - 1) : UrlFetchFailed(i)
    /\ (pc = "done" /\ fetchCalls >= 1 /\ fetchLog[fetchCalls].raises) =>
        /\ providerCalls = 3
        /\ fetchCalls = 3
        /\ \A i \in 1..3 : UrlFetchFailed(i)
        /\ outcome = Raised(fetchLog[3].exc)

C16_Witness ==
    /\ pc = "done"
    /\ call.op = "generate_image"
    /\ providerCalls = 3
    /\ fetchCalls = 3
    /\ outcome.status = "raised"
    /\ outcome.exc.type = "HTTPStatusError"

====
